---------------------------- MODULE Spec2Model ----------------------------
(***************************************************************************)
(* A model of the interactive runtime of emulsion:                         *)
(*   - the event loop of gelatin's Application (application.rs),           *)
(*   - the lazily materialised picture of PictureWidget (picture_widget.rs)*)
(*   - the key-binding resolver (input_handling.rs).                       *)
(* The three parts do not share state; each has its own specification      *)
(* (SpecLoop / LiveLoop, SpecAggregate, SpecPicture, SpecKeys) over its    *)
(* own variables, the other parts' variables being left at their initial   *)
(* values.                                                                 *)
(***************************************************************************)
EXTENDS Integers, Sequences, FiniteSets, TLC

VARIABLES
    \* ---- application.rs -------------------------------------------------
    pc,              \* "setup" | "idle" | "global" | "panicked"
    windows,         \* Application::windows: the ids the registry holds
    global_handlers, \* Application::global_handlers: Vec, in push order
    at_exit,         \* Application::at_exit: "None" | "Some"
    EXIT_REQUESTED,  \* the static AtomicBool
    control_flow,    \* event_loop.control_flow(): the target kept by winit
    now,             \* Instant::now(), in microseconds
    event,           \* the event the running callback was called with
    hidx,            \* position of the for loop over global_handlers
    exiting,         \* event_loop.exit() has been called
    started,         \* NewEvents(Init) has been delivered
    log,             \* history: what the current callback did, in order
    registered,      \* history: ids ever given to register_window
    destroyed,       \* history: ids whose Destroyed event was processed
    entered,         \* history: the clock when the callback was entered
    lastAgg,         \* history: the last aggregate_control_flow call
    at_exit_runs,    \* history: how often the at_exit closure ran
    reqs,            \* history: requests folded so far (SpecAggregate)
    \* ---- picture_widget.rs ----------------------------------------------
    image_texture,   \* PictureWidgetData::image_texture: Option<Picture>
    rendered_valid,  \* PictureWidgetData::rendered_valid
    image_fit,       \* PictureWidgetData::image_fit
    hover,           \* PictureWidgetData::hover
    click,           \* PictureWidgetData::click
    next_tex,        \* the id the next uploaded texture gets
    unreachable_hit, \* Picture::texture reached unreachable!()
    pic              \* history of the widget since the last DroppedFile
VARIABLES
    \* ---- input_handling.rs ----------------------------------------------
    macos,           \* cfg!(target_os = "macos") of the build
    bindings,        \* Configuration::bindings: Option<HashMap<..>>
    call             \* history: the last resolver call and its result

loopVars == <<pc, windows, global_handlers, at_exit, EXIT_REQUESTED,
              control_flow, now, event, hidx, exiting, started, log,
              registered, destroyed, entered, lastAgg, at_exit_runs, reqs>>
picVars  == <<image_texture, rendered_valid, image_fit, hover, click,
              next_tex, unreachable_hit, pic>>
keyVars  == <<macos, bindings, call>>
vars     == <<loopVars, picVars, keyVars>>

---------------------------------------------------------------------------
(* Bounds of the model.                                                    *)
MaxWindows  == 2   \* window ids are 1..MaxWindows
MaxHandlers == 2   \* at most this many global handlers are registered
MaxTicks    == 2   \* the clock runs over 0 .. MaxTicks half-thresholds
MaxReqs     == 3   \* requests folded in SpecAggregate

(* Duration::from_micros(100) of set_control_flow.                         *)
Threshold == 100

HalfThreshold == Threshold \div 2
\* Clock values, and the instants a WaitUntil request may name: in steps of
\* half a threshold, so that a request can be 50 us ahead, exactly at the
\* threshold, beyond it, or in the past.
ClockValues == {k * HalfThreshold : k \in 0..MaxTicks}
Instants    == {k * HalfThreshold : k \in 0..(MaxTicks + 2)}

---------------------------------------------------------------------------
(* winit's ControlFlow.                                                    *)
Wait         == [k |-> "Wait", t |-> 0]
Poll         == [k |-> "Poll", t |-> 0]
WaitUntil(t) == [k |-> "WaitUntil", t |-> t]
ControlFlows == {Wait, Poll} \cup {WaitUntil(t) : t \in Instants}

(* fn set_control_flow: the new target, given the clock it reads.          *)
set_control_flow(new, clock) ==
    IF new.k = "WaitUntil"
    THEN LET very_short_time_from_now == clock + Threshold
         IN  IF new.t < very_short_time_from_now THEN Poll ELSE new
    ELSE new

(* aggregate_control_flow with the arm for an original Wait taken for every *)
(* original that is not WaitUntil: a WaitUntil request replaces Poll.      *)
aggregate_replaces_poll(original, new, clock) ==
    CASE new.k = "Poll" ->
            [cf |-> set_control_flow(new, clock), replaced |-> TRUE]
      [] new.k = "WaitUntil" ->
            CASE original.k = "WaitUntil" ->
                    IF new.t < original.t
                    THEN [cf |-> set_control_flow(new, clock), replaced |-> TRUE]
                    ELSE [cf |-> original, replaced |-> FALSE]
              [] OTHER ->
                    [cf |-> set_control_flow(new, clock), replaced |-> TRUE]
      [] OTHER -> [cf |-> original, replaced |-> FALSE]

(* aggregate_control_flow with the comparison of the two deadlines turned  *)
(* round: the later deadline wins.                                         *)
aggregate_later_wins(original, new, clock) ==
    CASE new.k = "Poll" ->
            [cf |-> set_control_flow(new, clock), replaced |-> TRUE]
      [] new.k = "WaitUntil" ->
            CASE original.k = "WaitUntil" ->
                    IF new.t > original.t
                    THEN [cf |-> set_control_flow(new, clock), replaced |-> TRUE]
                    ELSE [cf |-> original, replaced |-> FALSE]
              [] original.k = "Wait" ->
                    [cf |-> set_control_flow(new, clock), replaced |-> TRUE]
              [] OTHER -> [cf |-> original, replaced |-> FALSE]
      [] OTHER -> [cf |-> original, replaced |-> FALSE]

(* fn aggregate_control_flow: the target afterwards and the returned flag. *)
aggregate_control_flow(original, new, clock) ==
    CASE new.k = "Poll" ->
            [cf |-> set_control_flow(new, clock), replaced |-> TRUE]
      [] new.k = "WaitUntil" ->
            CASE original.k = "WaitUntil" ->
                    IF new.t < original.t
                    THEN [cf |-> set_control_flow(new, clock), replaced |-> TRUE]
                    ELSE [cf |-> original, replaced |-> FALSE]
              [] original.k = "Wait" ->
                    [cf |-> set_control_flow(new, clock), replaced |-> TRUE]
              [] OTHER -> [cf |-> original, replaced |-> FALSE]
      [] OTHER -> [cf |-> original, replaced |-> FALSE]

(* sanitize_control_flow leaving the target as it finds it.                *)
sanitize_keeps_target(current, clock) == current

(* fn sanitize_control_flow.                                               *)
sanitize_control_flow(current, clock) == set_control_flow(current, clock)


---------------------------------------------------------------------------
(* The events winit hands to the closure of start_event_loop.              *)
WindowIds == 1..MaxWindows
HandlerIds == 1..MaxHandlers
WindowEventKinds == {"RedrawRequested", "CloseRequested", "Destroyed", "Other"}

InitEvent        == [type |-> "NewEvents(Init)", we |-> "-", id |-> 0]
AboutToWaitEvent == [type |-> "AboutToWait", we |-> "-", id |-> 0]
LoopExitingEvent == [type |-> "LoopExiting", we |-> "-", id |-> 0]
OtherEvent       == [type |-> "Other", we |-> "-", id |-> 0]
NoEvent          == [type |-> "-", we |-> "-", id |-> 0]
WindowEvent(we, id) == [type |-> "WindowEvent", we |-> we, id |-> id]
WindowEvents == {WindowEvent(we, id) : we \in WindowEventKinds, id \in WindowIds}
Events == {InitEvent, AboutToWaitEvent, LoopExitingEvent, OtherEvent}
              \cup WindowEvents

(* What a callback did, as entries of log.                                 *)
Entry(op, arg) == [op |-> op, arg |-> arg]
HandlerEntry(h, ev) == [op |-> "handler", arg |-> h, ev |-> ev]
NoAgg == [req |-> Wait, valid |-> FALSE]

(* All orders in which HashMap::values() may yield the windows.            *)
Orders(S) ==
    {f \in [1..Cardinality(S) -> S] :
        \A a, b \in 1..Cardinality(S) : a # b => f[a] # f[b]}

---------------------------------------------------------------------------
(* Application::new and the calls made before the loop starts.             *)
LoopInit ==
    /\ pc = "setup"
    /\ windows = {}
    /\ global_handlers = <<>>
    /\ at_exit = "None"
    /\ EXIT_REQUESTED = FALSE
    /\ control_flow = Wait
    /\ now = 0
    /\ event = NoEvent
    /\ hidx = 1
    /\ exiting = FALSE
    /\ started = FALSE
    /\ log = <<>>
    /\ registered = {}
    /\ destroyed = {}
    /\ entered = 0
    /\ lastAgg = NoAgg
    /\ at_exit_runs = 0
    /\ reqs = <<>>

(* Application::set_at_exit.                                               *)
set_at_exit(fun) ==
    /\ pc = "setup"
    /\ at_exit' = fun
    /\ UNCHANGED <<pc, windows, global_handlers, EXIT_REQUESTED, control_flow,
                   now, event, hidx, exiting, started, log, registered,
                   destroyed, entered, lastAgg, at_exit_runs, reqs>>

(* Application::register_window: HashMap::insert under the window's id.    *)
(* Ids are opaque and unique to a window: the windows registered are       *)
(* numbered in the order of registration, the other ids of WindowIds       *)
(* belong to no registered window.                                         *)
register_window(w) ==
    /\ pc = "setup"
    /\ w = Cardinality(windows) + 1
    /\ windows' = windows \cup {w}
    /\ registered' = registered \cup {w}
    /\ UNCHANGED <<pc, global_handlers, at_exit, EXIT_REQUESTED, control_flow,
                   now, event, hidx, exiting, started, log, destroyed,
                   entered, lastAgg, at_exit_runs, reqs>>

(* Application::add_global_event_handler: Vec::push.  A closure is known   *)
(* by its number in the order of registration.                             *)
add_global_event_handler(fun) ==
    /\ pc = "setup"
    /\ Len(global_handlers) < MaxHandlers
    /\ fun = Len(global_handlers) + 1
    /\ global_handlers' = Append(global_handlers, fun)
    /\ UNCHANGED <<pc, windows, at_exit, EXIT_REQUESTED, control_flow, now,
                   event, hidx, exiting, started, log, registered, destroyed,
                   entered, lastAgg, at_exit_runs, reqs>>

(* Application::start_event_loop up to event_loop.run: the registry, the   *)
(* handlers and at_exit are moved into the closure; nothing can register   *)
(* afterwards, since self is consumed.                                     *)
start_event_loop ==
    /\ pc = "setup"
    /\ pc' = "idle"
    /\ UNCHANGED <<windows, global_handlers, at_exit, EXIT_REQUESTED,
                   control_flow, now, event, hidx, exiting, started, log,
                   registered, destroyed, entered, lastAgg, at_exit_runs, reqs>>


---------------------------------------------------------------------------
(* The closure given to event_loop.run, one callback per event:            *)
(*   Deliver        winit calls the closure; sanitize_control_flow         *)
(*   CallHandler    one turn of the for loop over global_handlers          *)
(*   Route...       the match on the event, and the return to winit        *)
(* The clock advances while winit sleeps (in Deliver) and while handlers   *)
(* and windows run (Tick).                                                 *)

(* winit calls the closure with event e after sleeping for d.  Init comes  *)
(* first and once; after event_loop.exit() only LoopExiting follows.       *)
Deliverable(e) ==
    IF ~started THEN e = InitEvent
    ELSE IF exiting THEN e = LoopExitingEvent
    ELSE e \in Events \ {InitEvent}

Deliver(e, d) ==
    /\ pc = "idle"
    /\ Deliverable(e)
    /\ now + d \in ClockValues
    /\ now' = now + d
    /\ entered' = now + d
    /\ control_flow' = sanitize_control_flow(control_flow, now + d)
    /\ event' = e
    /\ hidx' = 1
    /\ log' = <<>>
    /\ lastAgg' = NoAgg
    /\ started' = TRUE
    /\ pc' = "global"
    /\ UNCHANGED <<windows, global_handlers, at_exit, EXIT_REQUESTED, exiting,
                   registered, destroyed, at_exit_runs, reqs>>

(* Time passes inside the callback.                                        *)
Tick ==
    /\ pc = "global"
    /\ now + HalfThreshold \in ClockValues
    /\ now' = now + HalfThreshold
    /\ UNCHANGED <<pc, windows, global_handlers, at_exit, EXIT_REQUESTED,
                   control_flow, event, hidx, exiting, started, log,
                   registered, destroyed, entered, lastAgg, at_exit_runs, reqs>>

(* The loop over the handlers stopping one handler early.                  *)
handlers_done_early(i, handlers) == i >= Len(handlers)

(* for handler in global_handlers.iter_mut(): whether the loop is over.    *)
handlers_done(i, handlers) == i > Len(handlers)

(* One turn of the loop: the handler is called with the event and returns  *)
(* request r, which is aggregated into the target.                         *)
CallHandler(r) ==
    /\ pc = "global"
    /\ ~handlers_done(hidx, global_handlers)
    /\ LET a == aggregate_control_flow(control_flow, r, now)
       IN  /\ control_flow' = a.cf
           /\ lastAgg' = [req |-> r, valid |-> TRUE]
    /\ log' = Append(log, HandlerEntry(global_handlers[hidx], event))
    /\ hidx' = hidx + 1
    /\ UNCHANGED <<pc, windows, global_handlers, at_exit, EXIT_REQUESTED, now,
                   event, exiting, started, registered, destroyed, entered,
                   at_exit_runs, reqs>>

(* The Init arm folding Wait into the target with aggregate_control_flow.  *)
init_arm_aggregates(cf) == aggregate_control_flow(cf, Wait, 0).cf

(* The Init arm: event_loop.set_control_flow(ControlFlow::Wait), winit's   *)
(* setter, whatever the target cf was.                                     *)
init_arm(cf) == Wait

(* Event::NewEvents(StartCause::Init).  The arm makes no call of           *)
(* aggregate_control_flow: lastAgg keeps the last handler's.               *)
RouteInit ==
    /\ pc = "global"
    /\ handlers_done(hidx, global_handlers)
    /\ event.type = "NewEvents(Init)"
    /\ control_flow' = init_arm(control_flow)
    /\ log' = Append(log, Entry("set_control_flow", "Wait"))
    /\ pc' = "idle"
    /\ UNCHANGED <<windows, global_handlers, at_exit, EXIT_REQUESTED, now,
                   event, hidx, exiting, started, registered, destroyed,
                   entered, lastAgg, at_exit_runs, reqs>>

(* The registry keeping a destroyed window.                                *)
keep_destroyed(wins, w, is_destroyed) == wins

(* if destroyed { windows.remove(&window_id); }                            *)
remove_if_destroyed(wins, w, is_destroyed) ==
    IF is_destroyed THEN wins \ {w} ELSE wins

(* request_exit leaving the flag as it is.                                 *)
request_exit_forgotten(flag) == flag

(* fn request_exit: EXIT_REQUESTED.store(true), given the flag before.     *)
request_exit(flag) == TRUE

(* The Event::WindowEvent arm for event ev, with r the request redraw()    *)
(* returns: what it leaves behind.  windows.get(&window_id).unwrap()       *)
(* panics for an id the registry does not hold.                            *)
window_event_arm(ev, wins, cf, exit_flag, clock, r) ==
    LET w == ev.id
        tracked == w \in wins
        is_destroyed == ev.we = "Destroyed"
        closing == ev.we = "CloseRequested"
    IN  IF ev.we = "RedrawRequested" /\ ~tracked
        THEN [panic |-> TRUE, cf |-> cf, exit_flag |-> exit_flag,
              windows |-> wins, log |-> <<Entry("panic", w)>>]
        ELSE
        LET cf1 == IF ev.we = "RedrawRequested"
                   THEN aggregate_control_flow(cf, r, clock).cf ELSE cf
            log1 == IF ev.we = "RedrawRequested"
                    THEN <<Entry("redraw", w)>> ELSE <<>>
            log2 == IF closing
                    THEN Append(log1, Entry("request_exit", w)) ELSE log1
        IN  IF ~tracked
            THEN [panic |-> TRUE, cf |-> cf1,
                  exit_flag |-> IF closing THEN request_exit(exit_flag)
                              ELSE exit_flag,
                  windows |-> wins, log |-> Append(log2, Entry("panic", w))]
            ELSE [panic |-> FALSE, cf |-> cf1,
                  exit_flag |-> IF closing THEN request_exit(exit_flag)
                              ELSE exit_flag,
                  windows |-> remove_if_destroyed(wins, w, is_destroyed),
                  log |-> Append(log2, Entry("process_event", w))
                          \o (IF is_destroyed /\ w \notin
                                   remove_if_destroyed(wins, w, is_destroyed)
                              THEN <<Entry("remove", w)>> ELSE <<>>)]

RouteWindowEvent(r) ==
    /\ pc = "global"
    /\ handlers_done(hidx, global_handlers)
    /\ event.type = "WindowEvent"
    /\ LET a == window_event_arm(event, windows, control_flow,
                                 EXIT_REQUESTED, now, r)
       IN  /\ control_flow' = a.cf
           /\ EXIT_REQUESTED' = a.exit_flag
           /\ windows' = a.windows
           /\ log' = log \o a.log
           /\ pc' = IF a.panic THEN "panicked" ELSE "idle"
           /\ destroyed' = IF event.we = "Destroyed" /\ ~a.panic
                           THEN destroyed \cup {event.id} ELSE destroyed
    /\ lastAgg' = NoAgg
    /\ UNCHANGED <<global_handlers, at_exit, now, event, hidx, exiting,
                   started, registered, entered, at_exit_runs, reqs>>


(* A call of a window's query, with the value it returned, as an entry of  *)
(* log.                                                                    *)
Query(op, w, ret) == [op |-> op, arg |-> w, ret |-> ret]

(* The loop body with should_sleep() asked of a window only while no       *)
(* redraw has been requested, and redraw_needed() asked only of windows    *)
(* that agree to sleep.                                                    *)
idle_step_skips_redraw_query(w, answer, acc) ==
    LET log1 == Append(acc.log, Entry("main_events_cleared", w))
        log2 == IF acc.should_sleep
                THEN Append(log1, Query("should_sleep", w, answer.should_sleep))
                ELSE log1
        sleep2 == acc.should_sleep /\ answer.should_sleep
        asked == answer.should_sleep
        log3 == IF asked
                THEN Append(log2, Query("redraw_needed", w,
                                        answer.redraw_needed))
                ELSE log2
        log4 == IF asked /\ answer.redraw_needed
                THEN Append(log3, Entry("request_redraw", w)) ELSE log3
        sleep4 == IF asked /\ answer.redraw_needed THEN FALSE ELSE sleep2
    IN  [should_sleep |-> sleep4, log |-> log4]

(* One turn of the for loop over windows.values() of the AboutToWait arm,  *)
(* for window w; answer holds what w's should_sleep() and redraw_needed()  *)
(* return, acc the local should_sleep and the calls made so far.           *)
(* `should_sleep && window.should_sleep()` short-circuits: the window is   *)
(* not asked once should_sleep is false.                                   *)
idle_step(w, answer, acc) ==
    LET log1 == Append(acc.log, Entry("main_events_cleared", w))
        log2 == IF acc.should_sleep
                THEN Append(log1, Query("should_sleep", w, answer.should_sleep))
                ELSE log1
        sleep2 == acc.should_sleep /\ answer.should_sleep
        log3 == Append(log2, Query("redraw_needed", w, answer.redraw_needed))
        log4 == IF answer.redraw_needed
                THEN Append(log3, Entry("request_redraw", w)) ELSE log3
        sleep4 == IF answer.redraw_needed THEN FALSE ELSE sleep2
    IN  [should_sleep |-> sleep4, log |-> log4]

(* The for loop, from the i-th window of the iteration order on.           *)
RECURSIVE idle_pass(_, _, _, _)
idle_pass(order, i, answers, acc) ==
    IF i > Len(order) THEN acc
    ELSE idle_pass(order, i + 1, answers,
                   idle_step(order[i], answers[order[i]], acc))

(* The end of the idle pass: the target it leaves.                         *)
idle_target(should_sleep, cf) ==
    IF should_sleep /\ ~(cf.k = "WaitUntil") THEN Wait ELSE cf

(* The exit check finding the flag clear whatever it holds.                *)
exit_check_skipped(flag) == FALSE

(* if EXIT_REQUESTED.load(Ordering::Relaxed): the value read.              *)
exit_requested(flag) == flag

(* Event::AboutToWait with EXIT_REQUESTED set: event_loop.exit(); return.  *)
RouteAboutToWaitExit ==
    /\ pc = "global"
    /\ handlers_done(hidx, global_handlers)
    /\ event.type = "AboutToWait"
    /\ exit_requested(EXIT_REQUESTED)
    /\ exiting' = TRUE
    /\ log' = Append(log, Entry("exit", 0))
    /\ lastAgg' = NoAgg
    /\ pc' = "idle"
    /\ UNCHANGED <<windows, global_handlers, at_exit, EXIT_REQUESTED,
                   control_flow, now, event, hidx, started, registered,
                   destroyed, entered, at_exit_runs, reqs>>

(* Event::AboutToWait otherwise: the idle pass.                            *)
RouteAboutToWaitIdle(order, answers) ==
    /\ pc = "global"
    /\ handlers_done(hidx, global_handlers)
    /\ event.type = "AboutToWait"
    /\ ~exit_requested(EXIT_REQUESTED)
    /\ LET p == idle_pass(order, 1, answers,
                          [should_sleep |-> TRUE, log |-> <<>>])
           cf == idle_target(p.should_sleep, control_flow)
       IN  /\ control_flow' = cf
           /\ log' = log \o p.log
                     \o (IF p.should_sleep /\ ~(control_flow.k = "WaitUntil")
                         THEN <<Entry("set_control_flow", "Wait")>>
                         ELSE <<>>)
    /\ lastAgg' = NoAgg
    /\ pc' = "idle"
    /\ UNCHANGED <<windows, global_handlers, at_exit, EXIT_REQUESTED, now,
                   event, hidx, exiting, started, registered, destroyed,
                   entered, at_exit_runs, reqs>>

(* The closure looked at without being taken out of the Option.            *)
take_leaves_closure(opt) == [taken |-> opt, left |-> opt]

(* Option::take: the value taken and what is left in its place.            *)
take(opt) == [taken |-> opt, left |-> "None"]

(* Event::LoopExiting: if let Some(at_exit) = at_exit.take() { at_exit() } *)
RouteLoopExiting ==
    /\ pc = "global"
    /\ handlers_done(hidx, global_handlers)
    /\ event.type = "LoopExiting"
    /\ at_exit' = take(at_exit).left
    /\ at_exit_runs' = IF take(at_exit).taken = "Some" THEN at_exit_runs + 1
                       ELSE at_exit_runs
    /\ log' = IF take(at_exit).taken = "Some"
              THEN Append(log, Entry("at_exit", 0))
              ELSE log
    /\ lastAgg' = NoAgg
    /\ pc' = "idle"
    /\ UNCHANGED <<windows, global_handlers, EXIT_REQUESTED, control_flow,
                   now, event, hidx, exiting, started, registered, destroyed,
                   entered, reqs>>

(* event => log::debug!("Ignoring event: ...")                            *)
RouteOther ==
    /\ pc = "global"
    /\ handlers_done(hidx, global_handlers)
    /\ event.type = "Other"
    /\ log' = Append(log, Entry("ignored", 0))
    /\ lastAgg' = NoAgg
    /\ pc' = "idle"
    /\ UNCHANGED <<windows, global_handlers, at_exit, EXIT_REQUESTED,
                   control_flow, now, event, hidx, exiting, started,
                   registered, destroyed, entered, at_exit_runs, reqs>>

Answers == [should_sleep : BOOLEAN, redraw_needed : BOOLEAN]
SleepDurations == {0, HalfThreshold, Threshold}

LoopNext ==
    \/ (\E fun \in {"None", "Some"} : set_at_exit(fun))
            /\ UNCHANGED <<picVars, keyVars>>
    \/ (\E w \in WindowIds : register_window(w))
            /\ UNCHANGED <<picVars, keyVars>>
    \/ (\E fun \in HandlerIds : add_global_event_handler(fun))
            /\ UNCHANGED <<picVars, keyVars>>
    \/ start_event_loop /\ UNCHANGED <<picVars, keyVars>>
    \/ (\E e \in Events, d \in SleepDurations : Deliver(e, d))
            /\ UNCHANGED <<picVars, keyVars>>
    \/ Tick /\ UNCHANGED <<picVars, keyVars>>
    \/ (\E r \in ControlFlows : CallHandler(r))
            /\ UNCHANGED <<picVars, keyVars>>
    \/ RouteInit /\ UNCHANGED <<picVars, keyVars>>
    \/ (\E r \in (IF event.we = "RedrawRequested" THEN ControlFlows
                  ELSE {Wait}) : RouteWindowEvent(r))
            /\ UNCHANGED <<picVars, keyVars>>
    \/ RouteAboutToWaitExit /\ UNCHANGED <<picVars, keyVars>>
    \/ (\E order \in Orders(windows), answers \in [windows -> Answers] :
            RouteAboutToWaitIdle(order, answers))
            /\ UNCHANGED <<picVars, keyVars>>
    \/ RouteLoopExiting /\ UNCHANGED <<picVars, keyVars>>
    \/ RouteOther /\ UNCHANGED <<picVars, keyVars>>

---------------------------------------------------------------------------
(* picture_widget.rs: enum Picture and Option<Picture>.                    *)
MaxPaths == 2   \* the paths a DroppedFile event may carry are 1..MaxPaths
MaxDrops == 2   \* DroppedFile events in a run
MaxDraws == 3   \* draws between two DroppedFile events

Paths == 1..MaxPaths
EmptyPath == 0  \* the placeholder path "" of upload_to_texture

None == [k |-> "None"]
LoadRequested(path) == [k |-> "LoadRequested", path |-> path]
Ready(texture) == [k |-> "Ready", texture |-> texture]
\* A texture made by cpu_to_texture: its identity and the file it shows.
Texture(id, path) == [id |-> id, from |-> path]
SomeTexture(texture) == [k |-> "Some", texture |-> texture]

(* upload_to_texture without the assignment of its Ready arm: self keeps   *)
(* the placeholder the swap put there.                                     *)
upload_forgets_ready(self, ok, id) ==
    LET tmp_picture == self
        swapped == LoadRequested(EmptyPath)
    IN  IF tmp_picture.k = "LoadRequested"
        THEN IF ok
             THEN [self |-> Ready(Texture(id, tmp_picture.path)),
                   result |-> "Ok",
                   opened |-> <<tmp_picture.path>>,
                   uploaded |-> <<tmp_picture.path>>]
             ELSE [self |-> swapped, result |-> "Err",
                   opened |-> <<tmp_picture.path>>, uploaded |-> <<>>]
        ELSE [self |-> swapped, result |-> "Ok",
              opened |-> <<>>, uploaded |-> <<>>]

(* Picture::upload_to_texture on self, where image::open succeeds (ok) or  *)
(* fails on the path it is given and a new texture gets identity id: self  *)
(* afterwards, the result, and the paths handed to image::open and to      *)
(* cpu_to_texture.                                                         *)
upload_to_texture(self, ok, id) ==
    LET tmp_picture == self                       \* after mem::swap
        swapped == LoadRequested(EmptyPath)       \* self after mem::swap
    IN  IF tmp_picture.k = "LoadRequested"
        THEN IF ok
             THEN [self |-> Ready(Texture(id, tmp_picture.path)),
                   result |-> "Ok",
                   opened |-> <<tmp_picture.path>>,
                   uploaded |-> <<tmp_picture.path>>]
             ELSE [self |-> swapped, result |-> "Err",
                   opened |-> <<tmp_picture.path>>, uploaded |-> <<>>]
        ELSE [self |-> Ready(tmp_picture.texture), result |-> "Ok",
              opened |-> <<>>, uploaded |-> <<>>]

(* Picture::texture taking a failed upload for a picture without texture:  *)
(* no error reaches the caller.                                            *)
texture_swallows_error(self, ok, id) ==
    LET u == upload_to_texture(self, ok, id)
    IN  IF u.result = "Ok" /\ u.self.k = "Ready"
        THEN [self |-> u.self, result |-> "Ok",
              texture |-> SomeTexture(u.self.texture),
              unreachable |-> FALSE, opened |-> u.opened,
              uploaded |-> u.uploaded]
        ELSE [self |-> u.self, result |-> "Ok", texture |-> None,
              unreachable |-> FALSE, opened |-> u.opened,
              uploaded |-> u.uploaded]

(* Picture::texture.                                                       *)
texture(self, ok, id) ==
    LET u == upload_to_texture(self, ok, id)
    IN  IF u.result = "Err"
        THEN [self |-> u.self, result |-> "Err", texture |-> None,
              unreachable |-> FALSE, opened |-> u.opened,
              uploaded |-> u.uploaded]
        ELSE IF u.self.k = "Ready"
        THEN [self |-> u.self, result |-> "Ok",
              texture |-> SomeTexture(u.self.texture),
              unreachable |-> FALSE, opened |-> u.opened,
              uploaded |-> u.uploaded]
        ELSE [self |-> u.self, result |-> "Ok", texture |-> None,
              unreachable |-> TRUE, opened |-> u.opened,
              uploaded |-> u.uploaded]

(* get_texture without `self.image_texture = None` in its Err arm.         *)
get_texture_keeps_failed(img, ok, id) ==
    IF img # None
    THEN LET t == texture(img, ok, id)
         IN  [image_texture |-> t.self, texture |-> t.texture,
              unreachable |-> t.unreachable, opened |-> t.opened,
              uploaded |-> t.uploaded]
    ELSE [image_texture |-> None, texture |-> None, unreachable |-> FALSE,
          opened |-> <<>>, uploaded |-> <<>>]

(* PictureWidgetData::get_texture on the field image_texture.              *)
get_texture(img, ok, id) ==
    IF img # None
    THEN LET t == texture(img, ok, id)
         IN  IF t.result = "Ok"
             THEN [image_texture |-> t.self, texture |-> t.texture,
                   unreachable |-> t.unreachable, opened |-> t.opened,
                   uploaded |-> t.uploaded]
             ELSE [image_texture |-> None, texture |-> None,
                   unreachable |-> FALSE, opened |-> t.opened,
                   uploaded |-> t.uploaded]
    ELSE [image_texture |-> None, texture |-> None, unreachable |-> FALSE,
          opened |-> <<>>, uploaded |-> <<>>]

(* PictureWidgetData::fit_image_to_panel: get_texture, and image_fit set   *)
(* when a texture came back.                                               *)
fit_image_to_panel(img, fit, ok, id) ==
    LET g == get_texture(img, ok, id)
    IN  [got |-> g, image_fit |-> IF g.texture # None THEN TRUE ELSE fit]

(* The history kept of the widget since the last DroppedFile event:        *)
(*   dropped   the path it carried (EmptyPath before the first one)        *)
(*   drops     DroppedFile events so far                                   *)
(*   draws     draws since                                                 *)
(*   opened    paths handed to image::open since, in order                 *)
(*   uploaded  paths whose image was uploaded since, in order              *)
(*   first     what the first draw since obtained                          *)
(*   last      what the last draw obtained                                 *)
(*   failed    an image::open since failed                                 *)
(*   result    what the last draw returned ("-" when there was none)       *)
(*   base      the id the next texture would have got at that event        *)
(*   prior     image_texture just before that event                        *)
PicInit ==
    /\ image_texture = None
    /\ rendered_valid = FALSE
    /\ image_fit = TRUE
    /\ hover = FALSE
    /\ click = FALSE
    /\ next_tex = 1
    /\ unreachable_hit = FALSE
    /\ pic = [dropped |-> EmptyPath, drops |-> 0, draws |-> 0,
              opened |-> <<>>, uploaded |-> <<>>, first |-> None,
              last |-> None, failed |-> FALSE, result |-> "-",
              base |-> 1, prior |-> None]

(* draw returning an error, before it marks the widget valid, when the     *)
(* picture it holds gave no texture.                                       *)
draw_propagates_error(g, valid) ==
    IF g.texture = None /\ g.opened # <<>>
    THEN [result |-> "Err", rendered_valid |-> valid]
    ELSE [result |-> "Ok", rendered_valid |-> TRUE]

(* The end of PictureWidget::draw, g being what get_texture gave:          *)
(* `self.data.borrow_mut().rendered_valid = true; Ok(())`.                 *)
draw_outcome(g, valid) == [result |-> "Ok", rendered_valid |-> TRUE]

(* Widget::is_valid of PictureWidget.                                      *)
is_valid == rendered_valid

(* PictureWidget::draw; ok is whether image::open succeeds if called.      *)
draw(ok) ==
    /\ ~unreachable_hit
    /\ pic.draws < MaxDraws
    /\ LET g == IF image_fit
                THEN fit_image_to_panel(image_texture, image_fit, ok, next_tex).got
                ELSE get_texture(image_texture, ok, next_tex)
           fit == IF image_fit
                  THEN fit_image_to_panel(image_texture, image_fit, ok, next_tex).image_fit
                  ELSE image_fit
       IN  /\ image_texture' = g.image_texture
           /\ image_fit' = fit
           /\ unreachable_hit' = g.unreachable
           /\ rendered_valid' =
                IF g.unreachable THEN rendered_valid
                ELSE draw_outcome(g, rendered_valid).rendered_valid
           /\ next_tex' = next_tex + Len(g.uploaded)
           /\ pic' = [pic EXCEPT !.draws = @ + 1,
                                 !.opened = @ \o g.opened,
                                 !.uploaded = @ \o g.uploaded,
                                 !.first = IF pic.draws = 0 THEN g.texture ELSE @,
                                 !.last = g.texture,
                                 !.failed = @ \/ (g.opened # <<>> /\ g.uploaded = <<>>),
                                 !.result =
                                    IF g.unreachable THEN "panic"
                                    ELSE draw_outcome(g, rendered_valid).result]
    /\ UNCHANGED <<hover, click>>

(* DroppedFile opening the file and uploading its image at once.           *)
DroppedFile_decodes(path) ==
    /\ ~unreachable_hit
    /\ pic.drops < MaxDrops
    /\ image_texture' = Ready(Texture(next_tex, path))
    /\ next_tex' = next_tex + 1
    /\ rendered_valid' = FALSE
    /\ pic' = [dropped |-> path, drops |-> pic.drops + 1, draws |-> 0,
               opened |-> <<path>>, uploaded |-> <<path>>, first |-> None,
               last |-> None, failed |-> FALSE, result |-> "-",
               base |-> next_tex, prior |-> image_texture]
    /\ UNCHANGED <<image_fit, hover, click, unreachable_hit>>

(* DroppedFile leaving a picture that is Ready in place.                   *)
DroppedFile_keeps_ready(path) ==
    /\ ~unreachable_hit
    /\ pic.drops < MaxDrops
    /\ image_texture' = IF image_texture.k = "Ready" THEN image_texture
                        ELSE LoadRequested(path)
    /\ rendered_valid' = FALSE
    /\ pic' = [dropped |-> path, drops |-> pic.drops + 1, draws |-> 0,
               opened |-> <<>>, uploaded |-> <<>>, first |-> None,
               last |-> None, failed |-> FALSE, result |-> "-",
               base |-> next_tex, prior |-> image_texture]
    /\ UNCHANGED <<image_fit, hover, click, next_tex, unreachable_hit>>

(* PictureWidget::handle_event, EventKind::DroppedFile(path).              *)
DroppedFile(path) ==
    /\ ~unreachable_hit
    /\ pic.drops < MaxDrops
    /\ image_texture' = LoadRequested(path)
    /\ rendered_valid' = FALSE
    /\ pic' = [dropped |-> path, drops |-> pic.drops + 1, draws |-> 0,
               opened |-> <<>>, uploaded |-> <<>>, first |-> None,
               last |-> None, failed |-> FALSE, result |-> "-",
               base |-> next_tex, prior |-> image_texture]
    /\ UNCHANGED <<image_fit, hover, click, next_tex, unreachable_hit>>

(* PictureWidget::handle_event, EventKind::MouseMove: inside is whether    *)
(* drawn_bounds contains the cursor.                                       *)
MouseMove(inside) ==
    /\ ~unreachable_hit
    /\ hover' = inside
    /\ UNCHANGED <<image_texture, rendered_valid, image_fit, click, next_tex,
                   unreachable_hit, pic>>

(* PictureWidget::handle_event, EventKind::MouseButton, left button.       *)
MouseButton(pressed) ==
    /\ ~unreachable_hit
    /\ click' = IF pressed THEN hover ELSE FALSE
    /\ rendered_valid' = FALSE
    /\ UNCHANGED <<image_texture, image_fit, hover, next_tex,
                   unreachable_hit, pic>>

PicNext ==
    \/ (\E ok \in BOOLEAN : draw(ok)) /\ UNCHANGED <<loopVars, keyVars>>
    \/ (\E path \in Paths : DroppedFile(path))
            /\ UNCHANGED <<loopVars, keyVars>>
    \/ (\E inside \in BOOLEAN : MouseMove(inside))
            /\ UNCHANGED <<loopVars, keyVars>>
    \/ (\E pressed \in BOOLEAN : MouseButton(pressed))
            /\ UNCHANGED <<loopVars, keyVars>>

---------------------------------------------------------------------------
(* input_handling.rs.  A string is the sequence of its characters.         *)
MaxChords == 2   \* chords in a list handed to keys_triggered directly

UpperCase ==
    <<"A", "B", "C", "D", "E", "F", "G", "H", "I", "J", "K", "L", "M",
      "N", "O", "P", "Q", "R", "S", "T", "U", "V", "W", "X", "Y", "Z">>
LowerCase ==
    <<"a", "b", "c", "d", "e", "f", "g", "h", "i", "j", "k", "l", "m",
      "n", "o", "p", "q", "r", "s", "t", "u", "v", "w", "x", "y", "z">>

(* str::to_lowercase.                                                      *)
LowerOf == [c \in {UpperCase[j] : j \in 1..Len(UpperCase)} |->
               LowerCase[CHOOSE j \in 1..Len(UpperCase) : UpperCase[j] = c]]
to_lowercase(str) ==
    [i \in 1..Len(str) |->
        IF str[i] \in DOMAIN LowerOf THEN LowerOf[str[i]] ELSE str[i]]

(* str::trim: leading and trailing white space removed.                    *)
RECURSIVE trim(_)
trim(str) ==
    IF str = <<>> THEN str
    ELSE IF Head(str) = " " THEN trim(Tail(str))
    ELSE IF str[Len(str)] = " " THEN trim(SubSeq(str, 1, Len(str) - 1))
    ELSE str

(* str::split('+'): the pieces between the separators, at least one.       *)
RECURSIVE split(_)
split(str) ==
    IF \E i \in 1..Len(str) : str[i] = "+"
    THEN LET i == CHOOSE i \in 1..Len(str) :
                    /\ str[i] = "+"
                    /\ \A j \in 1..(i - 1) : str[j] # "+"
         IN  <<SubSeq(str, 1, i - 1)>> \o split(SubSeq(str, i + 1, Len(str)))
    ELSE <<str>>

(* complex_key.split('+').map(|s| s.trim().to_lowercase()).collect()       *)
chord_parts(complex_key) ==
    LET pieces == split(complex_key)
    IN  [i \in 1..Len(pieces) |-> to_lowercase(trim(pieces[i]))]

(* ModifiersState: the set of modifiers held.                              *)
Modifiers == {"shift", "ctrl", "alt", "logo"}
alt_key(modifiers) == "alt" \in modifiers
control_key(modifiers) == "ctrl" \in modifiers
super_key(modifiers) == "logo" \in modifiers

(* The final test accepting modifiers held beyond those the chord names.   *)
modifiers_match_subset(has_alt, has_ctrl, has_logo, modifiers) ==
    /\ has_alt => alt_key(modifiers)
    /\ has_ctrl => control_key(modifiers)
    /\ has_logo => super_key(modifiers)

(* The final test of keys_triggered on the flags the chord set.            *)
modifiers_match(has_alt, has_ctrl, has_logo, modifiers) ==
    /\ has_alt = alt_key(modifiers)
    /\ has_ctrl = control_key(modifiers)
    /\ has_logo = super_key(modifiers)

(* The loop body with a fourth flag: a token "shift" requires shift to be  *)
(* held, and a chord without it requires shift not to be held.             *)
chord_triggered_requires_shift(complex_key, input_key, modifiers) ==
    LET parts == chord_parts(complex_key)
    IN  IF parts = <<>> THEN FALSE
        ELSE
        LET key == parts[Len(parts)]
            mods == SubSeq(parts, 1, Len(parts) - 1)
            named(name) == \E i \in 1..Len(mods) : mods[i] = name
            has_alt == named(<<"a", "l", "t">>)
            has_ctrl == \/ named(<<"c", "t", "r", "l">>)
                        \/ (named(<<"c", "m", "d", "c", "t", "r", "l">>) /\ ~macos)
            has_logo == \/ named(<<"l", "o", "g", "o">>)
                        \/ (named(<<"c", "m", "d", "c", "t", "r", "l">>) /\ macos)
            has_shift == named(<<"s", "h", "i", "f", "t">>)
        IN  IF input_key # key THEN FALSE
            ELSE /\ modifiers_match(has_alt, has_ctrl, has_logo, modifiers)
                 /\ has_shift = ("shift" \in modifiers)

(* The body of the for loop of keys_triggered for one chord: "continue"    *)
(* or "return true".                                                       *)
chord_triggered(complex_key, input_key, modifiers) ==
    LET parts == chord_parts(complex_key)
    IN  IF parts = <<>> THEN FALSE
        ELSE
        LET key == parts[Len(parts)]
            mods == SubSeq(parts, 1, Len(parts) - 1)
            named(name) == \E i \in 1..Len(mods) : mods[i] = name
            has_alt == named(<<"a", "l", "t">>)
            has_ctrl == \/ named(<<"c", "t", "r", "l">>)
                        \/ (named(<<"c", "m", "d", "c", "t", "r", "l">>) /\ ~macos)
            has_logo == \/ named(<<"l", "o", "g", "o">>)
                        \/ (named(<<"c", "m", "d", "c", "t", "r", "l">>) /\ macos)
        IN  IF input_key # key THEN FALSE
            ELSE modifiers_match(has_alt, has_ctrl, has_logo, modifiers)

(* fn keys_triggered, from the i-th chord of the list on.                  *)
RECURSIVE keys_triggered_from(_, _, _, _)
keys_triggered_from(keys, i, input_key, modifiers) ==
    IF i > Len(keys) THEN FALSE
    ELSE IF chord_triggered(keys[i], input_key, modifiers) THEN TRUE
    ELSE keys_triggered_from(keys, i + 1, input_key, modifiers)

keys_triggered(keys, input_key, modifiers) ==
    keys_triggered_from(keys, 1, input_key, modifiers)

(* lazy_static! DEFAULT_BINDINGS.                                          *)
DEFAULT_BINDINGS ==
       "toggle_fullscreen" :> <<<<"F", "1", "1">>, <<"R", "e", "t", "u", "r", "n">>>>
    @@ "escape" :> <<<<"E", "s", "c", "a", "p", "e">>, <<"Q">>>>
    @@ "img_next" :> <<<<"D">>, <<"R", "i", "g", "h", "t">>, <<"P", "a", "g", "e", "D", "o", "w", "n">>>>
    @@ "img_prev" :> <<<<"A">>, <<"L", "e", "f", "t">>, <<"P", "a", "g", "e", "U", "p">>>>
    @@ "img_orig" :> <<<<"1">>>>
    @@ "img_fit" :> <<<<"F">>>>
    @@ "img_fit_best" :> <<<<"E">>>>
    @@ "img_del" :> <<<<"D", "e", "l", "e", "t", "e">>>>
    @@ "img_copy" :> <<<<"C", "m", "d", "C", "t", "r", "l", "+", "C">>>>
    @@ "pan" :> <<<<"S", "p", "a", "c", "e">>>>
    @@ "play_anim" :> <<<<"A", "l", "t", "+", "A">>, <<"A", "l", "t", "+", "V">>>>
    @@ "play_present" :> <<<<"P">>>>
    @@ "play_present_rnd" :> <<<<"A", "l", "t", "+", "P">>>>
    @@ "toggle_antialias" :> <<<<"S">>>>
    @@ "automatic_antialias" :> <<<<"A", "l", "t", "+", "S">>>>

(* Option<HashMap<String, Vec<String>>>.                                   *)
NoBindings == [k |-> "None"]
SomeBindings(table) == [k |-> "Some", table |-> table]

(* The lookup falling back to the defaults only when there is no user      *)
(* table at all.                                                           *)
bound_keys_no_fallback(config_bindings, action_name) ==
    IF config_bindings.k = "Some"
    THEN IF action_name \in DOMAIN config_bindings.table
         THEN config_bindings.table[action_name]
         ELSE <<>>
    ELSE IF action_name \in DOMAIN DEFAULT_BINDINGS
         THEN DEFAULT_BINDINGS[action_name]
         ELSE <<>>

(* The lookup adding the default chords of the action to the user's.       *)
bound_keys_appends_defaults(config_bindings, action_name) ==
    LET defaults == IF action_name \in DOMAIN DEFAULT_BINDINGS
                    THEN DEFAULT_BINDINGS[action_name]
                    ELSE <<>>
    IN  IF config_bindings.k = "Some"
           /\ action_name \in DOMAIN config_bindings.table
        THEN config_bindings.table[action_name] \o defaults
        ELSE defaults

(* The chord list action_triggered hands to keys_triggered.                *)
bound_keys(config_bindings, action_name) ==
    IF config_bindings.k = "Some"
       /\ action_name \in DOMAIN config_bindings.table
    THEN config_bindings.table[action_name]
    ELSE IF action_name \in DOMAIN DEFAULT_BINDINGS
         THEN DEFAULT_BINDINGS[action_name]
         ELSE <<>>

(* fn action_triggered.                                                    *)
action_triggered(config_bindings, action_name, input_key, modifiers) ==
    keys_triggered(bound_keys(config_bindings, action_name), input_key,
                   modifiers)

---------------------------------------------------------------------------
(* The inputs the resolver is run on.                                      *)
\* "Ctrl+S", "S", "Alt+S", " ctrl + Alt + s ", "CmdCtrl+C", "Shift+S",
\* "Logo+S" and "".
ChordPool ==
    {<<"C", "t", "r", "l", "+", "S">>,
     <<"S">>,
     <<"A", "l", "t", "+", "S">>,
     <<" ", "c", "t", "r", "l", " ", "+", " ", "A", "l", "t", " ", "+", " ", "s", " ">>,
     <<"C", "m", "d", "C", "t", "r", "l", "+", "C">>,
     <<"S", "h", "i", "f", "t", "+", "S">>,
     <<"L", "o", "g", "o", "+", "S">>,
     <<>>}
\* "s", "S", "c", "d" and "".
KeyPool ==
    {<<"s">>, <<"S">>, <<"c">>, <<"d">>, <<>>}
\* Every name with a default, a name the source declares without a default
\* (PAN_VERT_NAME) and a name of the user's own.
ActionNames == DOMAIN DEFAULT_BINDINGS \cup {"pan_vert", "custom"}
ChordLists ==
    UNION {[1..n -> ChordPool] : n \in 0..MaxChords}
\* The user tables a configuration file may hold.
UserTables ==
    { NoBindings,
      SomeBindings(<<>>),
      SomeBindings("toggle_antialias" :> <<<<"C", "t", "r", "l", "+", "S">>>>),
      SomeBindings("img_next" :> <<>>),
      SomeBindings("custom" :> <<<<"S", "h", "i", "f", "t", "+", "S">>>>
                   @@ "img_copy" :> <<<<"L", "o", "g", "o", "+", "C">>, <<" ", "c", "t", "r", "l", " ", "+", " ", "c">>>>) }

NoCall == [fn |-> "-", name |-> "-", keys |-> <<>>, input_key |-> <<>>,
           modifiers |-> {}, result |-> FALSE]

KeyInit ==
    /\ macos \in BOOLEAN
    /\ bindings \in UserTables
    /\ call = NoCall

(* A call of keys_triggered on a chord list, as execute_triggered_commands *)
(* makes for every user command.  A run makes one call (KeyNext): the      *)
(* resolver keeps no state between calls.                                  *)
KeysTriggered(keys, input_key, modifiers) ==
    /\ call' = [fn |-> "keys_triggered", name |-> "-", keys |-> keys,
                input_key |-> input_key, modifiers |-> modifiers,
                result |-> keys_triggered(keys, input_key, modifiers)]
    /\ UNCHANGED <<macos, bindings>>

(* A call of action_triggered with the configuration of the run.           *)
ActionTriggered(action_name, input_key, modifiers) ==
    /\ call' = [fn |-> "action_triggered", name |-> action_name,
                keys |-> <<>>, input_key |-> input_key,
                modifiers |-> modifiers,
                result |-> action_triggered(bindings, action_name,
                                            input_key, modifiers)]
    /\ UNCHANGED <<macos, bindings>>

KeyNext ==
    \/ /\ call = NoCall
       /\ \E keys \in ChordLists, input_key \in KeyPool,
             modifiers \in SUBSET Modifiers :
               KeysTriggered(keys, input_key, modifiers)
       /\ UNCHANGED <<loopVars, picVars>>
    \/ /\ call = NoCall
       /\ \E action_name \in ActionNames, input_key \in KeyPool,
             modifiers \in SUBSET Modifiers :
               ActionTriggered(action_name, input_key, modifiers)
       /\ UNCHANGED <<loopVars, picVars>>

---------------------------------------------------------------------------
(* The fold of aggregate_control_flow over a sequence of requests, from    *)
(* target Wait: each request is Wait, Poll or WaitUntil(T) with T at least *)
(* Threshold ahead of the clock when it is submitted.                      *)
AggInit ==
    /\ LoopInit

Submit(r) ==
    /\ Len(reqs) < MaxReqs
    /\ r.k = "WaitUntil" => r.t >= now + Threshold
    /\ control_flow' = aggregate_control_flow(control_flow, r, now).cf
    /\ reqs' = Append(reqs, r)
    /\ UNCHANGED <<pc, windows, global_handlers, at_exit, EXIT_REQUESTED, now,
                   event, hidx, exiting, started, log, registered, destroyed,
                   entered, lastAgg, at_exit_runs>>

Elapse ==
    /\ now + HalfThreshold \in ClockValues
    /\ now' = now + HalfThreshold
    /\ UNCHANGED <<pc, windows, global_handlers, at_exit, EXIT_REQUESTED,
                   control_flow, event, hidx, exiting, started, log,
                   registered, destroyed, entered, lastAgg, at_exit_runs, reqs>>

AggNext ==
    \/ (\E r \in ControlFlows : Submit(r)) /\ UNCHANGED <<picVars, keyVars>>
    \/ Elapse /\ UNCHANGED <<picVars, keyVars>>

---------------------------------------------------------------------------
(* The specifications.                                                     *)
KeyIdle == macos = FALSE /\ bindings = NoBindings /\ call = NoCall

InitLoop      == LoopInit /\ PicInit /\ KeyIdle
InitAggregate == AggInit /\ PicInit /\ KeyIdle
InitPicture   == LoopInit /\ PicInit /\ KeyIdle
InitKeys      == LoopInit /\ PicInit /\ KeyInit

SpecLoop      == InitLoop /\ [][LoopNext]_vars
SpecAggregate == InitAggregate /\ [][AggNext]_vars
SpecPicture   == InitPicture /\ [][PicNext]_vars
SpecKeys      == InitKeys /\ [][KeyNext]_vars
Spec          == SpecLoop

(* The closure runs to its end once called, and winit sends AboutToWait    *)
(* after every batch of events for as long as the loop runs.               *)
CallbackStep ==
    /\ \/ \E r \in ControlFlows : CallHandler(r)
       \/ RouteInit
       \/ \E r \in ControlFlows : RouteWindowEvent(r)
       \/ RouteAboutToWaitExit
       \/ \E order \in Orders(windows), answers \in [windows -> Answers] :
               RouteAboutToWaitIdle(order, answers)
       \/ RouteLoopExiting
       \/ RouteOther
    /\ UNCHANGED <<picVars, keyVars>>
DeliverAboutToWait ==
    /\ \E d \in SleepDurations : Deliver(AboutToWaitEvent, d)
    /\ UNCHANGED <<picVars, keyVars>>
LiveLoop ==
    /\ InitLoop /\ [][LoopNext]_vars
    /\ WF_vars(CallbackStep)
    /\ SF_vars(DeliverAboutToWait)

---------------------------------------------------------------------------
(* The claims.                                                             *)

\* The order of urgency: Poll > WaitUntil(earlier) > WaitUntil(later) > Wait.
AtLeastAsUrgent(a, b) ==
    \/ a.k = "Poll"
    \/ b.k = "Wait"
    \/ (a.k = "WaitUntil" /\ b.k = "WaitUntil" /\ a.t <= b.t)

Min(S) == CHOOSE x \in S : \A y \in S : x <= y
\* The most urgent of a sequence of requests.
MostUrgent(rs) ==
    LET polls == {i \in 1..Len(rs) : rs[i].k = "Poll"}
        times == {rs[i].t : i \in {j \in 1..Len(rs) : rs[j].k = "WaitUntil"}}
    IN  IF polls # {} THEN Poll
        ELSE IF times # {} THEN WaitUntil(Min(times))
        ELSE Wait

(* C5: from target Wait, after any sequence of requests (Wait, Poll, or    *)
(* WaitUntil(T) with T at least 100 us ahead when submitted) has been      *)
(* folded in by aggregate_control_flow, the target is Poll if any request  *)
(* was Poll, else WaitUntil(the least T submitted) if any was WaitUntil,   *)
(* else Wait.  The value depends on the requests only, not on their order: *)
(* every order of every sequence within the bound is checked.              *)
C5_MostUrgentWins == control_flow = MostUrgent(reqs)

\* WaitUntil(T + 2 thresholds), Wait, WaitUntil(T + 1 threshold) were folded
\* in and the target is the earlier deadline.
C5_Witness ==
    /\ reqs = <<WaitUntil(2 * Threshold), Wait, WaitUntil(Threshold)>>
    /\ control_flow = WaitUntil(Threshold)

(* C6, as stated: whenever a callback has returned to winit, the target is *)
(* not WaitUntil(T) with T earlier than the current time + 100 us.         *)
C6_Original ==
    (pc = "idle" /\ started) =>
        ~(control_flow.k = "WaitUntil" /\ control_flow.t < now + Threshold)

\* The step of the for loop that aggregates a handler's request.
HandlerStep == pc = "global" /\ hidx' = hidx + 1

(* C6, amended: a WaitUntil(T) target is never earlier than (the clock     *)
(* when the running or last callback was entered + 100 us): the target     *)
(* carried over is normalised by sanitize_control_flow on entry and every  *)
(* request by set_control_flow against the clock when it is installed.  A  *)
(* request that replaces target Wait becomes Poll when it is less than     *)
(* 100 us ahead at that moment and is installed unchanged otherwise.       *)
C6_NormalizedWhenInstalled ==
    /\ [](started =>
            (control_flow.k = "WaitUntil" =>
                control_flow.t >= entered + Threshold))
    /\ [][(HandlerStep /\ control_flow = Wait
                /\ lastAgg'.req.k = "WaitUntil") =>
            control_flow' = IF lastAgg'.req.t < now + Threshold
                            THEN Poll ELSE lastAgg'.req]_vars

\* A callback has returned with a deadline that was a threshold ahead when
\* the callback was entered and is less than that ahead at the return.
C6_Witness ==
    /\ pc = "idle" /\ started
    /\ control_flow.k = "WaitUntil"
    /\ control_flow.t >= entered + Threshold
    /\ control_flow.t < now + Threshold

\* The entries of log made by the loop over the global handlers.
IsHandlerEntry(e) == e.op = "handler"

(* C9: in every callback the global handlers are called with the event,    *)
(* each once and in the order of registration, before anything else is     *)
(* done: an entry of the callback's log that is not a handler call comes   *)
(* after the calls of all handlers, and a callback that has returned (or   *)
(* panicked) has called them all.                                          *)
C9_GlobalHandlersFirst ==
    LET n == Len(global_handlers)
        called == IF Len(log) < n THEN Len(log) ELSE n
    IN  /\ \A k \in 1..called : log[k] = HandlerEntry(global_handlers[k], event)
        /\ \A k \in (called + 1)..Len(log) :
                ~IsHandlerEntry(log[k]) /\ called = n
        /\ (started /\ pc \in {"idle", "panicked"}) => called = n
        /\ (pc = "global") => called = hidx - 1

\* A window event was dispatched after the two handlers had been called in
\* the order of their registration.
C9_Witness ==
    /\ pc = "idle"
    /\ global_handlers = <<1, 2>>
    /\ event.type = "WindowEvent"
    /\ Len(log) = 3
    /\ log[3] = Entry("process_event", event.id)

(* C10: a call of aggregate_control_flow for a global handler's request    *)
(* leaves the target at least as urgent as it found it.                    *)
C10_NonWeakening ==
    [][HandlerStep => AtLeastAsUrgent(control_flow', control_flow)]_vars

\* The second handler asked for a later deadline than the target the first
\* had set, and the target is still the earlier one.
C10_Witness ==
    /\ pc = "global" /\ hidx = 3
    /\ lastAgg.valid /\ lastAgg.req.k = "WaitUntil"
    /\ control_flow.k = "WaitUntil"
    /\ control_flow.t < lastAgg.req.t

\* The step of a callback that ends it: the match on the event.
RouteStep == pc = "global" /\ pc' # "global"
\* The positions of log at which op was done to window w.
Positions(l, op, w) == {k \in 1..Len(l) : l[k] = Entry(op, w)}

(* C7: the registry holds exactly the ids registered whose Destroyed event *)
(* has not been processed, and once the loop runs no id is added.  A       *)
(* window event for an id the registry holds is given to that window's     *)
(* process_event and to no other; if it is Destroyed the id is removed     *)
(* after process_event, and otherwise the registry is left alone.  A       *)
(* window event for an id the registry does not hold (never registered, or *)
(* destroyed) panics, without any process_event.                           *)
C7_WindowTracking ==
    /\ [](windows = registered \ destroyed)
    /\ [][pc # "setup" => windows' \subseteq windows]_vars
    /\ [][(RouteStep /\ event.type = "WindowEvent") =>
            LET w == event.id
                calls == {k \in 1..Len(log') : log'[k].op = "process_event"}
            IN  IF w \in windows
                THEN /\ pc' = "idle"
                     /\ calls = Positions(log', "process_event", w)
                     /\ Cardinality(calls) = 1
                     /\ IF event.we = "Destroyed"
                        THEN /\ windows' = windows \ {w}
                             /\ Cardinality(Positions(log', "remove", w)) = 1
                             /\ \A i \in calls, j \in Positions(log', "remove", w) :
                                    i < j
                        ELSE windows' = windows
                ELSE /\ pc' = "panicked"
                     /\ calls = {}
                     /\ windows' = windows]_vars

\* An event for a window whose Destroyed event had been processed arrived,
\* and the callback panicked.
C7_Witness ==
    /\ pc = "panicked"
    /\ event.type = "WindowEvent"
    /\ event.id \in destroyed

(* C8: CloseRequested for a window the registry holds sets EXIT_REQUESTED, *)
(* is given to the window's process_event, and does not make the loop exit *)
(* in that callback; the flag is never cleared; event_loop.exit() is       *)
(* called by the AboutToWait callback that finds the flag set, and by no   *)
(* other; and once the flag is set the loop exit is eventually requested,  *)
(* unless a callback panics first.                                         *)
C8_DeferredExit ==
    /\ [][(RouteStep /\ event = WindowEvent("CloseRequested", event.id)
                /\ event.id \in windows) =>
            /\ EXIT_REQUESTED'
            /\ exiting' = exiting
            /\ pc' = "idle"
            /\ Positions(log', "process_event", event.id) # {}]_vars
    /\ [][EXIT_REQUESTED => EXIT_REQUESTED']_vars
    /\ [][(RouteStep /\ event.type = "AboutToWait" /\ EXIT_REQUESTED) =>
            exiting']_vars
    /\ [][exiting' # exiting =>
            (RouteStep /\ event.type = "AboutToWait" /\ EXIT_REQUESTED)]_vars
    /\ (EXIT_REQUESTED ~> (exiting \/ pc = "panicked"))

\* The callback of a CloseRequested event for a registered window has
\* returned: the flag is set, the window got the event, exit is not yet
\* requested.
C8_Witness ==
    /\ pc = "idle"
    /\ event.type = "WindowEvent" /\ event.we = "CloseRequested"
    /\ event.id \in windows
    /\ EXIT_REQUESTED /\ ~exiting
    /\ Positions(log, "process_event", event.id) # {}

(* C1: once a draw has resolved the picture since the last DroppedFile,    *)
(* image::open has been called exactly once since, on the dropped path,    *)
(* however many draws followed; and when that call succeeded, exactly one  *)
(* texture has been uploaded, the resource is Ready with the texture the   *)
(* first draw obtained, and the last draw obtained that same texture.      *)
C1_IdempotentMaterialization ==
    (pic.drops >= 1 /\ pic.draws >= 1) =>
        /\ pic.opened = <<pic.dropped>>
        /\ Len(pic.uploaded) <= 1
        /\ (pic.first = None) = pic.failed
        /\ pic.first # None =>
                /\ pic.uploaded = <<pic.dropped>>
                /\ image_texture = Ready(pic.first.texture)
                /\ pic.first.texture.from = pic.dropped
                /\ pic.last = pic.first

\* Three draws since the DroppedFile, one image::open, the same texture.
C1_Witness ==
    /\ pic.draws = 3
    /\ pic.first # None
    /\ pic.last = pic.first
    /\ Len(pic.opened) = 1

(* C2: once image::open has failed since the last DroppedFile, the widget  *)
(* holds no picture, the last draw obtained no texture, image::open has    *)
(* not been called again, and nothing has panicked.                        *)
C2_DecodeFailureClears ==
    pic.failed =>
        /\ image_texture = None
        /\ pic.last = None
        /\ pic.first = None
        /\ Len(pic.opened) = 1
        /\ pic.uploaded = <<>>
        /\ ~unreachable_hit

\* The decode failed and further draws followed.
C2_Witness ==
    /\ pic.failed
    /\ pic.draws = 3
    /\ image_texture = None
    /\ pic.last = None

\* The key token of a chord and the modifiers among alt, ctrl and logo the
\* tokens before it name (cmdctrl names logo on macOS and ctrl elsewhere).
ChordKey(chord) == chord_parts(chord)[Len(chord_parts(chord))]
TokenNames(token) ==
    IF token = <<"a", "l", "t">> THEN {"alt"}
    ELSE IF token = <<"c", "t", "r", "l">> THEN {"ctrl"}
    ELSE IF token = <<"l", "o", "g", "o">> THEN {"logo"}
    ELSE IF token = <<"c", "m", "d", "c", "t", "r", "l">>
         THEN IF macos THEN {"logo"} ELSE {"ctrl"}
    ELSE {}
ChordModifiers(chord) ==
    UNION {TokenNames(chord_parts(chord)[i]) :
                i \in 1..(Len(chord_parts(chord)) - 1)}
Held(modifiers) == modifiers \cap {"alt", "ctrl", "logo"}
CtrlS == <<"C", "t", "r", "l", "+", "S">>
KeyS == <<"s">>

(* C3: keys_triggered returns true exactly when some chord of the list has *)
(* a key token equal to the pressed key and names exactly the modifiers    *)
(* among alt, ctrl and logo that are held; "Ctrl+S" with key s matches     *)
(* exactly when ctrl is held and neither alt nor logo.                     *)
C3_ExactSetMatching ==
    call.fn = "keys_triggered" =>
        /\ call.result =
             (\E i \in 1..Len(call.keys) :
                 /\ ChordKey(call.keys[i]) = call.input_key
                 /\ ChordModifiers(call.keys[i]) = Held(call.modifiers))
        /\ (call.keys = <<CtrlS>> /\ call.input_key = KeyS) =>
                (call.result = (Held(call.modifiers) = {"ctrl"}))

\* "Ctrl+S" with key s, ctrl and alt held: no match.
C3_Witness ==
    /\ call.fn = "keys_triggered"
    /\ call.keys = <<CtrlS>>
    /\ call.input_key = KeyS
    /\ call.modifiers = {"ctrl", "alt"}
    /\ call.result = FALSE

(* C4: for an action name the user table does not hold (there being no     *)
(* user table, or one without the name), action_triggered returns what     *)
(* keys_triggered returns on the default chord list of the name, and false *)
(* when the name has no default either.                                    *)
C4_DefaultFallback ==
    (/\ call.fn = "action_triggered"
     /\ (bindings.k = "None" \/ call.name \notin DOMAIN bindings.table)) =>
        call.result =
            IF call.name \in DOMAIN DEFAULT_BINDINGS
            THEN keys_triggered(DEFAULT_BINDINGS[call.name], call.input_key,
                                call.modifiers)
            ELSE FALSE

\* A user table that has entries but none for the action: the default chord
\* of the action triggered it.
C4_Witness ==
    /\ call.fn = "action_triggered"
    /\ bindings.k = "Some"
    /\ DOMAIN bindings.table # {}
    /\ call.name \notin DOMAIN bindings.table
    /\ call.name \in DOMAIN DEFAULT_BINDINGS
    /\ call.result = TRUE

---------------------------------------------------------------------------
(* The claims about the idle pass (Event::AboutToWait).                    *)

\* The positions of log at which op was called on window w.
Calls(l, op, w) == {k \in 1..Len(l) : l[k].op = op /\ l[k].arg = w}
\* The values the calls of query op on window w returned.
Returned(l, op, w) == {l[k].ret : k \in Calls(l, op, w)}
\* The calls made on windows, whatever the window.
WindowOps ==
    {"main_events_cleared", "should_sleep", "redraw_needed", "request_redraw"}
\* The callback of an AboutToWait event has returned and it ran the idle
\* pass: the flag was clear (no step of that callback changes the flag).
IdlePassReturned ==
    pc = "idle" /\ event.type = "AboutToWait" /\ ~EXIT_REQUESTED
\* The step that runs the AboutToWait arm.
AboutToWaitStep == RouteStep /\ event.type = "AboutToWait"

(* C11, as stated: when an AboutToWait callback that ran the idle pass has *)
(* returned, request_redraw() was called on every window of the registry   *)
(* whose redraw_needed() returned true, and if there is such a window the  *)
(* target is Poll.                                                         *)
C11_Original ==
    IdlePassReturned =>
        /\ \A w \in windows :
                TRUE \in Returned(log, "redraw_needed", w) =>
                    Calls(log, "request_redraw", w) # {}
        /\ (\E w \in windows : TRUE \in Returned(log, "redraw_needed", w)) =>
                control_flow = Poll

(* C12, as stated: the AboutToWait arm turns a target that is not Wait     *)
(* into Wait only when every window of the registry returned true from     *)
(* should_sleep() and none returned true from redraw_needed(); and when    *)
(* the last global handler of the callback asked for Poll or WaitUntil(T), *)
(* the target is not Wait when the callback returns.                       *)
C12_Original ==
    [][AboutToWaitStep =>
        /\ (control_flow # Wait /\ control_flow' = Wait) =>
                /\ ~EXIT_REQUESTED
                /\ \A w \in windows :
                        /\ Returned(log', "should_sleep", w) = {TRUE}
                        /\ Returned(log', "redraw_needed", w) = {FALSE}
        /\ (lastAgg.valid /\ lastAgg.req # Wait) => control_flow' # Wait]_vars

(* C13, as stated: when an AboutToWait callback that ran the idle pass has *)
(* returned, main_events_cleared(), should_sleep() and redraw_needed()     *)
(* have each been called exactly once on every window of the registry.     *)
C13_Original ==
    IdlePassReturned =>
        \A w \in windows :
            \A op \in {"main_events_cleared", "should_sleep", "redraw_needed"} :
                Cardinality(Calls(log, op, w)) = 1

\* Window w objected: it would not sleep, or it needed a redraw.
Objected(l, w) ==
    \/ FALSE \in Returned(l, "should_sleep", w)
    \/ TRUE \in Returned(l, "redraw_needed", w)

(* C13, amended: when an AboutToWait callback that ran the idle pass has   *)
(* returned, main_events_cleared() and redraw_needed() have each been      *)
(* called exactly once on every window of the registry, whatever the other *)
(* windows returned, and request_redraw() on exactly the windows whose     *)
(* redraw_needed() returned true.  should_sleep() has been called at most  *)
(* once on a window, after its main_events_cleared() and before its        *)
(* redraw_needed(): on the windows visited before any window objected (by  *)
(* should_sleep() false or redraw_needed() true) and on the first window   *)
(* that objected by should_sleep(), and on no window visited after a       *)
(* window that objected.  All these calls precede the sleep-target         *)
(* decision, and nothing is called on an id the registry does not hold.    *)
C13_IdlePassQueries ==
    IdlePassReturned =>
        /\ \A w \in windows :
            LET m == Calls(log, "main_events_cleared", w)
                s == Calls(log, "should_sleep", w)
                r == Calls(log, "redraw_needed", w)
                q == Calls(log, "request_redraw", w)
                before == {v \in windows :
                            \E i \in Calls(log, "main_events_cleared", v),
                               j \in m : i < j}
            IN  /\ Cardinality(m) = 1
                /\ Cardinality(r) = 1
                /\ Cardinality(s) <= 1
                /\ \A i \in m, j \in r : i < j
                /\ \A i \in m, j \in s, k \in r : i < j /\ j < k
                /\ (s # {}) = (\A v \in before : ~Objected(log, v))
                /\ (q # {}) = (TRUE \in Returned(log, "redraw_needed", w))
                /\ Cardinality(q) <= 1
                /\ \A j \in r, k \in q : j < k
        /\ \A k \in 1..Len(log) :
                /\ log[k].op \in WindowOps => log[k].arg \in windows
                /\ log[k].op = "set_control_flow" => k = Len(log)

\* Two windows were visited; the first would not sleep, and should_sleep()
\* was not called on the second, though its main_events_cleared() and
\* redraw_needed() were.
C13_Witness ==
    /\ IdlePassReturned
    /\ Cardinality(windows) = 2
    /\ \E v, w \in windows :
            /\ v # w
            /\ Returned(log, "should_sleep", v) = {FALSE}
            /\ Calls(log, "should_sleep", w) = {}
            /\ Calls(log, "main_events_cleared", w) # {}
            /\ Calls(log, "redraw_needed", w) # {}

(* C14: an AboutToWait event whose arm finds EXIT_REQUESTED set calls      *)
(* event_loop.exit() and returns: main_events_cleared(), should_sleep(),   *)
(* redraw_needed() and request_redraw() are called on no window, the flag  *)
(* stays set, the registry is left alone, and the arm leaves the target as *)
(* the global handlers left it.                                            *)
C14_ExitSkipsIdleWork ==
    [][(AboutToWaitStep /\ EXIT_REQUESTED) =>
        /\ exiting'
        /\ pc' = "idle"
        /\ control_flow' = control_flow
        /\ log' = Append(log, Entry("exit", 0))
        /\ \A k \in 1..Len(log') : log'[k].op \notin WindowOps
        /\ EXIT_REQUESTED'
        /\ windows' = windows]_vars

\* AboutToWait arrived with the flag set while the registry held a window,
\* and the target was not Wait: exit was requested, nothing was called on
\* the window, the target is as it was.
C14_Witness ==
    /\ pc = "idle" /\ event.type = "AboutToWait"
    /\ EXIT_REQUESTED /\ exiting
    /\ windows # {}
    /\ control_flow = Poll
    /\ log # <<>> /\ log[Len(log)] = Entry("exit", 0)

---------------------------------------------------------------------------
(* The claims about the key-binding resolver, continued.                   *)

(* C15: for an action name the user table holds, action_triggered returns  *)
(* what keys_triggered returns on the user's chord list for that name: it  *)
(* is false when that list is empty or none of its chords matches, also    *)
(* when a default chord of the action would match.                         *)
C15_UserTableShadowsDefaults ==
    (/\ call.fn = "action_triggered"
     /\ bindings.k = "Some"
     /\ call.name \in DOMAIN bindings.table) =>
        /\ call.result = keys_triggered(bindings.table[call.name],
                                        call.input_key, call.modifiers)
        /\ bindings.table[call.name] = <<>> => call.result = FALSE

\* The user's list for img_next is empty; key d, which the default chord
\* "D" of img_next matches, was pressed and the action was not triggered.
C15_Witness ==
    /\ call.fn = "action_triggered"
    /\ bindings.k = "Some"
    /\ call.name \in DOMAIN bindings.table
    /\ bindings.table[call.name] = <<>>
    /\ call.name \in DOMAIN DEFAULT_BINDINGS
    /\ keys_triggered(DEFAULT_BINDINGS[call.name], call.input_key,
                      call.modifiers)
    /\ call.result = FALSE

\* The chords of a list with every letter in lower case.
LowerChords(keys) == [i \in 1..Len(keys) |-> to_lowercase(keys[i])]

(* C16, as stated: the result of keys_triggered does not depend on the     *)
(* case of the letters of the chords nor of the pressed key: it is the     *)
(* result for the same chords and the same key in lower case.              *)
C16_Original ==
    call.fn = "keys_triggered" =>
        /\ call.result = keys_triggered(LowerChords(call.keys),
                                        call.input_key, call.modifiers)
        /\ call.result = keys_triggered(call.keys,
                                        to_lowercase(call.input_key),
                                        call.modifiers)

---------------------------------------------------------------------------
(* The claims about the picture, continued.                                *)

\* The step of a DroppedFile event, and the step of a draw.
DropStep == pic'.drops = pic.drops + 1
DrawStep == pic'.drops = pic.drops /\ pic'.draws = pic.draws + 1

(* C17: a DroppedFile event sets the resource to LoadRequested(path) and   *)
(* neither opens a file nor uploads a texture.  image::open is called, and *)
(* a texture uploaded, only by a draw that finds the resource              *)
(* LoadRequested, and on the path it holds; a draw that finds it empty or  *)
(* Ready, and the mouse events, call neither.                              *)
C17_LazyDecode ==
    [][/\ DropStep =>
            /\ image_texture' = LoadRequested(pic'.dropped)
            /\ next_tex' = next_tex
            /\ pic'.opened = <<>> /\ pic'.uploaded = <<>>
       /\ (~DropStep /\ pic'.opened # pic.opened) =>
            /\ DrawStep
            /\ image_texture.k = "LoadRequested"
            /\ pic'.opened = Append(pic.opened, image_texture.path)
       /\ next_tex' # next_tex =>
            /\ DrawStep
            /\ image_texture.k = "LoadRequested"
            /\ pic'.uploaded = Append(pic.uploaded, image_texture.path)
       /\ (DrawStep /\ image_texture.k # "LoadRequested") =>
            /\ pic'.opened = pic.opened
            /\ next_tex' = next_tex]_vars

\* A file was dropped and the mouse moved over the widget; no draw yet:
\* the resource is LoadRequested, nothing was opened or uploaded.
C17_Witness ==
    /\ pic.drops = 1 /\ pic.draws = 0
    /\ hover
    /\ image_texture = LoadRequested(pic.dropped)
    /\ pic.opened = <<>> /\ next_tex = 1

(* C18: a DroppedFile(p2) event leaves the resource LoadRequested(p2) and  *)
(* the widget invalid, whatever the resource was.  Once a draw has         *)
(* followed, image::open has been called once since the event, on p2 (not  *)
(* on a path that was pending before); a draw since that obtained a        *)
(* texture obtained the one uploaded for p2 since the event, the same as   *)
(* the first such draw, never the texture held before the event; and a     *)
(* draw obtains none only when opening p2 failed.                          *)
C18_LoadRequestReplaces ==
    /\ [][DropStep =>
            /\ image_texture' = LoadRequested(pic'.dropped)
            /\ ~is_valid']_vars
    /\ [](pic.drops >= 1 /\ pic.draws >= 1 =>
            /\ pic.opened = <<pic.dropped>>
            /\ pic.last = None => pic.failed
            /\ pic.last # None =>
                /\ pic.last.texture.from = pic.dropped
                /\ pic.last.texture.id = pic.base
                /\ pic.last = pic.first
                /\ pic.prior.k = "Ready" =>
                        pic.last.texture # pic.prior.texture)

\* The widget was Ready with a texture when the second file was dropped;
\* two draws since obtained another texture, the one of the second file.
C18_Witness ==
    /\ pic.drops = 2 /\ pic.draws = 2
    /\ pic.prior.k = "Ready"
    /\ pic.last # None
    /\ pic.last.texture # pic.prior.texture
    /\ pic.last.texture.from = pic.dropped

(* C19: between the operations of the widget the resource is empty, or    *)
(* LoadRequested(p) with p the path of the last DroppedFile, or Ready(h)   *)
(* with h the texture uploaded since that event from that path; it is      *)
(* never LoadRequested with the placeholder path of the swap.              *)
C19_NoPlaceholderObservable ==
    /\ image_texture # LoadRequested(EmptyPath)
    /\ \/ image_texture = None
       \/ /\ pic.drops >= 1
          /\ image_texture = LoadRequested(pic.dropped)
          /\ pic.dropped \in Paths
       \/ /\ pic.drops >= 1
          /\ image_texture.k = "Ready"
          /\ image_texture.texture = Texture(pic.base, pic.dropped)
          /\ pic.uploaded = <<pic.dropped>>

\* The widget was Ready when a second file was dropped, and the draw that
\* followed could not open it: the resource is empty, not the placeholder.
C19_Witness ==
    /\ pic.drops = 2 /\ pic.draws = 1
    /\ pic.prior.k = "Ready"
    /\ pic.opened = <<pic.dropped>> /\ pic.uploaded = <<>>
    /\ image_texture = None

(* C20: every draw returns Ok and leaves is_valid() true, whether or not   *)
(* it obtained a texture; a draw in which image::open failed obtained no   *)
(* texture and left the resource empty; and after a failure the later      *)
(* draws do not call image::open again.                                    *)
C20_DrawAbsorbsFailure ==
    [][DrawStep =>
        /\ pic'.result = "Ok"
        /\ is_valid'
        /\ ~unreachable_hit'
        /\ pic'.failed => (pic'.last = None /\ image_texture' = None)
        /\ pic.failed => pic'.opened = pic.opened]_vars

\* image::open failed in the first draw since the DroppedFile; the second
\* draw returned Ok, obtained nothing, opened nothing, and the widget is
\* valid.
C20_Witness ==
    /\ pic.failed
    /\ pic.draws = 2
    /\ pic.result = "Ok"
    /\ is_valid
    /\ pic.last = None
    /\ Len(pic.opened) = 1

---------------------------------------------------------------------------
(* The claims about the Init and LoopExiting arms.                         *)

(* C21: the callback of NewEvents(Init) returns with target Wait, whatever *)
(* requests the global handlers returned for that event and whatever       *)
(* target they left.                                                       *)
C21_InitResetsTarget ==
    /\ [][(RouteStep /\ event.type = "NewEvents(Init)") =>
            (control_flow' = Wait /\ pc' = "idle")]_vars
    /\ []((pc = "idle" /\ event.type = "NewEvents(Init)") =>
            control_flow = Wait)

\* The last global handler asked for Poll on the Init event; the callback
\* has returned and the target is Wait.
C21_Witness ==
    /\ pc = "idle" /\ event.type = "NewEvents(Init)"
    /\ global_handlers # <<>>
    /\ lastAgg.valid /\ lastAgg.req = Poll
    /\ control_flow = Wait

(* C22: the at_exit closure runs only in the callback of a LoopExiting     *)
(* event that finds a closure installed, and that callback takes it out:   *)
(* it runs in the first LoopExiting callback when Some was installed, at   *)
(* most once in a run, in no callback of another event (CloseRequested,    *)
(* AboutToWait with the exit flag set, ...), and never when None was       *)
(* installed.                                                              *)
C22_AtExitOnce ==
    /\ [][at_exit_runs' # at_exit_runs =>
            /\ RouteStep /\ event.type = "LoopExiting"
            /\ at_exit = "Some"
            /\ at_exit_runs = 0 /\ at_exit_runs' = 1]_vars
    /\ [][(RouteStep /\ event.type = "LoopExiting") =>
            /\ at_exit' = "None"
            /\ at_exit_runs' = IF at_exit = "Some" THEN 1 ELSE at_exit_runs
            /\ (Calls(log', "at_exit", 0) # {}) = (at_exit = "Some")]_vars
    /\ [][(pc # "setup" /\ at_exit = "None") =>
            (at_exit' = "None" /\ at_exit_runs' = at_exit_runs)]_vars
    /\ [](at_exit_runs <= 1 /\ (at_exit = "Some" => at_exit_runs = 0))

\* The closure has run once, and a later LoopExiting event was processed
\* without running it.
C22_Witness ==
    /\ pc = "idle" /\ event.type = "LoopExiting"
    /\ at_exit_runs = 1
    /\ at_exit = "None"
    /\ Calls(log, "at_exit", 0) = {}

---------------------------------------------------------------------------
(* The claims about the key-binding resolver, the modifier tokens.         *)

ShiftS == <<"S", "h", "i", "f", "t", "+", "S">>
PlainS == <<"S">>
\* A chord list with every chord "Shift+S" replaced by "S".
WithoutShift(keys) ==
    [i \in 1..Len(keys) |-> IF keys[i] = ShiftS THEN PlainS ELSE keys[i]]

(* C23: a token before the key that is none of alt, ctrl, logo, cmdctrl    *)
(* requires nothing: keys_triggered returns for a chord list what it       *)
(* returns for the list with "S" in the place of every "Shift+S", and for  *)
(* the chord "Shift+S" alone it returns true exactly when the pressed key  *)
(* is s and none of alt, ctrl, logo is held, shift held or not.            *)
C23_UnknownModifierIgnored ==
    call.fn = "keys_triggered" =>
        /\ call.result = keys_triggered(WithoutShift(call.keys),
                                        call.input_key, call.modifiers)
        /\ call.keys = <<ShiftS>> =>
                call.result = (/\ call.input_key = KeyS
                               /\ Held(call.modifiers) = {})

\* "Shift+S" with key s and no modifier held, shift neither: a match.
C23_Witness ==
    /\ call.fn = "keys_triggered"
    /\ call.keys = <<ShiftS>>
    /\ call.input_key = KeyS
    /\ call.modifiers = {}
    /\ call.result = TRUE

=============================================================================
